---------------------------- MODULE Spec2Model ----------------------------
(***************************************************************************)
(* The chat turn handler of main_streamlit.py (handle_message and the      *)
(* helpers it calls), as a state machine.                                  *)
(*                                                                         *)
(* Text.  A Python str is a sequence of fragments (TLA+ strings) and       *)
(* concatenation is \o.  Every str the code inspects character by          *)
(* character (user input, completion texts that are stripped, lowered or   *)
(* prefix-tested, column names, cell strings) is written one character per *)
(* fragment, so strip, lower, startswith and `in` are computed as Python   *)
(* computes them.  The fixed parts of f-strings are single fragments.      *)
(***************************************************************************)
EXTENDS Integers, Sequences, FiniteSets, TLC

VARIABLES
    messages,       \* st.session_state.messages (main_streamlit.py:33-34)
    pc,             \* position of the handler inside handle_message
    calls,          \* number of handle_message calls made so far
    user_input,     \* handle_message's parameter
    forced_table,   \* local forced_table (153-159)
    intent,         \* local intent (161)
    sql_query,      \* local sql_query (165)
    history,        \* local history (177, 179)
    response,       \* local response (197, 202)
    exc,            \* str(e) of the exception being propagated
    connOpen,       \* number of open connections of db._engine
    fetched,        \* history as built at line 177, before line 179
    prompt,         \* variable parts of the last prompt given to llm.predict
    trace,          \* steps taken by the current (or most recent) turn
    after_error,    \* the turn before the current one ended with an error
    fn_name,        \* pure-function harness: the function applied
    fn_in,          \* pure-function harness: its argument
    fn_out          \* pure-function harness: successive results

vars == <<messages, pc, calls, user_input, forced_table, intent, sql_query,
          history, response, exc, connOpen, fetched, prompt, trace, after_error,
          fn_name, fn_in, fn_out>>

turnVars == <<messages, pc, calls, user_input, forced_table, intent,
              sql_query, history, response, exc, connOpen, fetched, prompt,
              trace, after_error>>

fnVars == <<fn_name, fn_in, fn_out>>

---------------------------------------------------------------------------
(* Bounds of the model.                                                    *)

\* handle_message calls per behaviour
MaxCalls == 2
\* length of the cell strings given to format_inr
MaxLen == 3
\* words per text given to the table router
MaxWords == 2
\* successive applications of a formatting function
MaxApply == 2

---------------------------------------------------------------------------
(* Python str methods.                                                     *)

Whitespace == {" ", "\t", "\n"}

UpperCase == <<"A","B","C","D","E","F","G","H","I","J","K","L","M","N","O","P","Q","R","S","T","U","V","W","X","Y","Z">>

LowerCase == <<"a","b","c","d","e","f","g","h","i","j","k","l","m","n","o","p","q","r","s","t","u","v","w","x","y","z">>

\* str.lower() on one character
lower_char(c) ==
    IF \E i \in DOMAIN UpperCase : UpperCase[i] = c
    THEN LowerCase[CHOOSE i \in DOMAIN UpperCase : UpperCase[i] = c]
    ELSE c

\* str.lower()
lower(s) == [i \in 1..Len(s) |-> lower_char(s[i])]

RECURSIVE lstrip(_)
lstrip(s) == IF s # <<>> /\ Head(s) \in Whitespace THEN lstrip(Tail(s)) ELSE s

RECURSIVE rstrip(_)
rstrip(s) ==
    IF s # <<>> /\ s[Len(s)] \in Whitespace
    THEN rstrip(SubSeq(s, 1, Len(s) - 1))
    ELSE s

\* str.strip()
strip(s) == rstrip(lstrip(s))

\* str.startswith(p)
startswith(s, p) == Len(s) >= Len(p) /\ SubSeq(s, 1, Len(p)) = p

\* p in s, for strs
contains(s, p) ==
    \E i \in 0..(Len(s) - Len(p)) : SubSeq(s, i + 1, i + Len(p)) = p

\* any(kw in s for kw in kws)
any_in(kws, s) == \E k \in DOMAIN kws : contains(s, kws[k])

---------------------------------------------------------------------------
(* Table router: lines 153-159 of handle_message.                          *)

CostWords == << <<"c","o","s","t">>, <<"o","v","e","r","h","e","a","d">>, <<"f","e","e">>, <<"c","o","m","p","l","i","a","n","c","e">>, <<"m","a","i","n","t","e","n","a","n","c","e">> >>

ExpenseWords == << <<"e","x","p","e","n","s","e">>, <<"f","r","e","e","l","a","n","c","e","r">>, <<"a","g","e","n","c","y">>, <<"m","a","r","k","e","t","i","n","g">> >>

SalaryWords == << <<"s","a","l","a","r","y">>, <<"p","a","y","r","o","l","l">>, <<"e","m","p","l","o","y","e","e">> >>

KnownTables == {"ohs_oes", "salary_expense", "variable_expense"}

\* faulty variant: tests the expense keywords before the cost keywords
ForcedTableExpenseFirst(text) ==
    IF any_in(ExpenseWords, lower(text)) THEN "variable_expense"
    ELSE IF any_in(CostWords, lower(text)) THEN "ohs_oes"
    ELSE IF any_in(SalaryWords, lower(text)) THEN "salary_expense"
    ELSE "None"

ForcedTable(text) ==
    IF any_in(CostWords, lower(text)) THEN "ohs_oes"
    ELSE IF any_in(ExpenseWords, lower(text)) THEN "variable_expense"
    ELSE IF any_in(SalaryWords, lower(text)) THEN "salary_expense"
    ELSE "None"

---------------------------------------------------------------------------
(* Cell values of a DataFrame.  A number is the exact decimal              *)
(* (-1)^neg * num / 10^scale; a str is its characters; None is None.       *)

NumVal(neg, num, scale) ==
    [kind |-> "num", neg |-> neg, num |-> num, scale |-> scale, s |-> <<>>]

StrVal(s) == [kind |-> "str", neg |-> FALSE, num |-> 0, scale |-> 0, s |-> s]

NoneVal == [kind |-> "none", neg |-> FALSE, num |-> 0, scale |-> 0, s |-> <<>>]

DigitChars == <<"0","1","2","3","4","5","6","7","8","9">>

IsDigit(c) == \E d \in DOMAIN DigitChars : DigitChars[d] = c

DigitValue(c) == (CHOOSE d \in DOMAIN DigitChars : DigitChars[d] = c) - 1

RECURSIVE Pow10(_)
Pow10(n) == IF n = 0 THEN 1 ELSE 10 * Pow10(n - 1)

\* value of a string of digits, 0 for the empty string
RECURSIVE DigitsValue(_)
DigitsValue(ds) ==
    IF ds = <<>> THEN 0
    ELSE 10 * DigitsValue(SubSeq(ds, 1, Len(ds) - 1)) + DigitValue(ds[Len(ds)])

\* float(str): surrounding whitespace is ignored, then an optional sign, then
\* digits with at most one point and at least one digit.  (Exponents, inf, nan
\* and digit-group underscores need characters the inputs here never hold.)
ParseFloat(s) ==
    LET t == strip(s)
        signed == t # <<>> /\ Head(t) \in {"-", "+"}
        body == IF signed THEN Tail(t) ELSE t
        points == {i \in DOMAIN body : body[i] = "."}
        digits == {i \in DOMAIN body : IsDigit(body[i])}
        p == IF points = {} THEN Len(body) + 1 ELSE CHOOSE i \in points : TRUE
        ok == /\ digits # {}
              /\ Cardinality(points) <= 1
              /\ digits \cup points = DOMAIN body
        ds == SubSeq(body, 1, p - 1) \o SubSeq(body, p + 1, Len(body))
    IN  IF ok
        THEN [ok |-> TRUE, neg |-> signed /\ Head(t) = "-",
              num |-> DigitsValue(ds),
              scale |-> IF points = {} THEN 0 ELSE Len(body) - p]
        ELSE [ok |-> FALSE, neg |-> FALSE, num |-> 0, scale |-> 0]

\* float(value) at line 42: ok is FALSE where Python raises
float(value) ==
    CASE value.kind = "num" ->
            [ok |-> TRUE, neg |-> value.neg, num |-> value.num, scale |-> value.scale]
      [] value.kind = "str" -> ParseFloat(value.s)
      [] OTHER -> [ok |-> FALSE, neg |-> FALSE, num |-> 0, scale |-> 0]

\* the number of hundredths the format spec .2f rounds to (ties go to the even
\* neighbour, as for a tie the binary float holds exactly)
Hundredths(num, scale) ==
    IF scale <= 2 THEN num * Pow10(2 - scale)
    ELSE LET d == Pow10(scale - 2)
             q == num \div d
             r == num % d
         IN  IF 2 * r > d \/ (2 * r = d /\ q % 2 = 1) THEN q + 1 ELSE q

RECURSIVE DigitsOf(_)
DigitsOf(n) ==
    IF n < 10 THEN <<DigitChars[n + 1]>>
    ELSE DigitsOf(n \div 10) \o <<DigitChars[(n % 10) + 1]>>

\* the thousands separator of the format spec ","
RECURSIVE Grouped(_)
Grouped(ds) ==
    IF Len(ds) <= 3 THEN ds
    ELSE Grouped(SubSeq(ds, 1, Len(ds) - 3)) \o <<",">>
         \o SubSeq(ds, Len(ds) - 2, Len(ds))

\* f"₹{value:,.2f}" at line 43
FormatMoney(f) ==
    LET h == Hundredths(f.num, f.scale)
        cents == h % 100
    IN  <<"₹">> \o (IF f.neg THEN <<"-">> ELSE <<>>)
        \o Grouped(DigitsOf(h \div 100)) \o <<".">>
        \o <<DigitChars[(cents \div 10) + 1], DigitChars[(cents % 10) + 1]>>

\* faulty variant: returns None where float() raises
format_inr_drops_unparsed(value) ==
    LET f == float(value)
    IN  IF f.ok THEN StrVal(FormatMoney(f)) ELSE NoneVal

format_inr(value) ==
    LET f == float(value)
    IN  IF f.ok THEN StrVal(FormatMoney(f)) ELSE value

(* A DataFrame: its column names in order and its rows; a row holds one    *)
(* cell per column.  Column names are distinct.                            *)
MoneyWords == << <<"c","o","s","t">>, <<"e","x","p","e","n","s","e">>, <<"s","a","l","a","r","y">> >>

\* line 49-51
money_cols(data) ==
    {c \in DOMAIN data.columns : any_in(MoneyWords, lower(data.columns[c]))}

\* data is a DataFrame wherever handle_message calls this (line 179)
format_money_columns(data) ==
    [data EXCEPT !.rows =
        [r \in DOMAIN data.rows |->
            [c \in DOMAIN data.rows[r] |->
                IF c \in money_cols(data)
                THEN format_inr(data.rows[r][c])
                ELSE data.rows[r][c]]]]

---------------------------------------------------------------------------
(* The conversation log and the values the handler works on.               *)

NoTable == [columns |-> <<>>, rows |-> <<>>]

\* a message body that is a str
TextBody(text) == [shape |-> "text", text |-> text, table |-> NoTable]

\* a message body that is a DataFrame
TableBody(df) == [shape |-> "table", text |-> <<>>, table |-> df]

\* faulty variant: appends the message twice
add_message_twice(log, msg, sender) ==
    log \o << [message |-> msg, sender |-> sender],
              [message |-> msg, sender |-> sender] >>

\* st.session_state.messages.append({"message": msg, "sender": sender})
add_message(log, msg, sender) ==
    Append(log, [message |-> msg, sender |-> sender])

\* the fixed texts of the three error messages (lines 168, 182, 208)
InvalidSqlText ==
    << "Sorry, I could not create a valid SQL query. Please rephrase." >>

ExecutionErrorText(e) == << "I tried to run a query but got an error: ", e, "." >>

UnexpectedErrorText(e) == << "Unexpected error: ", e >>

\* the labels that lead to SQL generation (line 163)
DataIntents == { <<"p","r","e","d","i","c","t","i","o","n">>, <<"d","b","_","q","u","e","r","y">> }

\* the value classify_intent returns for the completion text raw (line 109)
classify_intent(raw) == lower(strip(raw))

\* faulty variant: accepts a statement that holds select anywhere
passes_gate_anywhere(sql) == contains(lower(sql), <<"s","e","l","e","c","t">>)

\* sql_query.lower().startswith("select") (line 167)
passes_gate(sql) == startswith(lower(sql), <<"s","e","l","e","c","t">>)

NoPrompt == [kind |-> "none", force |-> <<>>, history |-> NoTable]

\* classify_intent's prompt (lines 97-108)
intent_prompt == [kind |-> "intent", force |-> <<>>, history |-> NoTable]

\* build_sql_prompt: the line that names the forced table is there only when
\* forced_table is set
build_sql_prompt(forced) ==
    [kind |-> "sql",
     force |-> IF forced # "None"
               THEN << "Force the query to use this table: ", forced >>
               ELSE <<>>,
     history |-> NoTable]

\* the prediction prompt holds the table as it stands at line 190
prediction_prompt(df) == [kind |-> "prediction", force |-> <<>>, history |-> df]

\* the conversational prompt (line 203)
smalltalk_prompt == [kind |-> "smalltalk", force |-> <<>>, history |-> NoTable]

---------------------------------------------------------------------------
(* What the environment supplies: the user's inputs, the texts and         *)
(* exceptions of the completion service, the results and exceptions of the *)
(* store.                                                                  *)

BlankInputs == { <<>>, <<" ","\n">> }

NonBlankInputs == { <<"H","i"," ","t","h","e","r","e">>, <<" ","T","o","t","a","l"," ","C","O","S","T"," ","b","y"," ","m","o","n","t","h">>, <<"p","a","y","r","o","l","l","?">> }

UserInputs == BlankInputs \cup NonBlankInputs

\* completion texts returned to classify_intent
LabelTexts == { <<"d","b","_","q","u","e","r","y">>, <<" ","P","r","e","d","i","c","t","i","o","n","\n">>, <<"s","m","a","l","l","t","a","l","k">>, <<"q","u","e","r","y">> }

\* completion texts returned for the SQL prompt
SqlTexts == { <<" ","S","e","l","e","c","t"," ","1","\n">>, <<"d","r","o","p"," ","t",";"," ","s","e","l","e","c","t"," ","1">>, <<>> }

\* completion texts returned for the prediction and conversational prompts
ReplyTexts == { <<"Hello!">>, <<"Costs are rising.">> }

\* str(e) of what llm.predict raises
LLMErrors == { "APIConnectionError" }

\* str(e) of what the engine, the connection or pandas raises
DBErrors == { "OperationalError" }

\* the DataFrames a statement may give
ResultSets ==
    { [columns |-> << <<"M","o","n","t","h">>, <<"T","o","t","a","l"," ","C","o","s","t">> >>,
       rows |-> << << StrVal(<<"J","a","n">>), NumVal(FALSE, 12345, 1) >> >>],
      [columns |-> << <<"D","e","p","a","r","t","m","e","n","t">>, <<"S","A","L","A","R","Y">> >>,
       rows |-> << << StrVal(<<"H","R">>), StrVal(<<"1","2","0","0">>) >>,
                   << StrVal(<<"I","T">>), NoneVal >> >>] }

---------------------------------------------------------------------------
(* handle_message, one action per step between two calls to the outside.   *)

Last(s) == s[Len(s)]

ErrorSteps == {"error:invalid-sql", "error:execution", "error:unexpected"}

\* the most recent turn ended with an error message
LastTurnError == trace # <<>> /\ Last(trace) \in ErrorSteps

fnIdle == fn_name = "none" /\ fn_in = <<>> /\ fn_out = <<>>

TurnInit ==
    /\ messages = <<>>
    /\ pc = "idle"
    /\ calls = 0
    /\ user_input = <<>>
    /\ forced_table = "None"
    /\ intent = <<>>
    /\ sql_query = <<>>
    /\ history = NoTable
    /\ response = <<>>
    /\ exc = ""
    /\ connOpen = 0
    /\ fetched = NoTable
    /\ prompt = NoPrompt
    /\ trace = <<>>
    /\ after_error = FALSE

Init == TurnInit /\ fnIdle

\* lines 146-147: a blank input returns at once
HandleBlank(u) ==
    /\ pc = "idle"
    /\ calls < MaxCalls
    /\ strip(u) = <<>>
    /\ calls' = calls + 1
    /\ UNCHANGED <<messages, pc, user_input, forced_table, intent, sql_query,
                   history, response, exc, connOpen, fetched, prompt, trace,
                   after_error>>
    /\ UNCHANGED fnVars

\* faulty variant: leaves the table routing to the data branch: the turn goes from
\* the logged input straight to the classifier
ReceiveSkipsRoute(u) ==
    /\ pc = "idle"
    /\ calls < MaxCalls
    /\ strip(u) # <<>>
    /\ calls' = calls + 1
    /\ messages' = add_message(messages, TextBody(u), "user")
    /\ user_input' = u
    /\ forced_table' = "None"
    /\ intent' = <<>>
    /\ sql_query' = <<>>
    /\ history' = NoTable
    /\ response' = <<>>
    /\ exc' = ""
    /\ fetched' = NoTable
    /\ prompt' = NoPrompt
    /\ trace' = <<"received">>
    /\ after_error' = LastTurnError
    /\ pc' = "classify"
    /\ UNCHANGED connOpen
    /\ UNCHANGED fnVars

\* lines 352-353 and 146-149: a non-blank input is logged and the turn begins
Receive(u) ==
    /\ pc = "idle"
    /\ calls < MaxCalls
    /\ strip(u) # <<>>
    /\ calls' = calls + 1
    /\ messages' = add_message(messages, TextBody(u), "user")
    /\ user_input' = u
    /\ forced_table' = "None"
    /\ intent' = <<>>
    /\ sql_query' = <<>>
    /\ history' = NoTable
    /\ response' = <<>>
    /\ exc' = ""
    /\ fetched' = NoTable
    /\ prompt' = NoPrompt
    /\ trace' = <<"received">>
    /\ after_error' = LastTurnError
    /\ pc' = "route"
    /\ UNCHANGED connOpen
    /\ UNCHANGED fnVars

\* lines 153-159
Route ==
    /\ pc = "route"
    /\ forced_table' = ForcedTable(user_input)
    /\ trace' = Append(trace, "routed")
    /\ pc' = "classify"
    /\ UNCHANGED <<messages, calls, user_input, intent, sql_query, history,
                   response, exc, connOpen, fetched, prompt, after_error>>
    /\ UNCHANGED fnVars

\* line 161, llm.predict returns
ClassifyReturns(raw) ==
    /\ pc = "classify"
    /\ prompt' = intent_prompt
    /\ intent' = classify_intent(raw)
    /\ trace' = Append(trace, "classified")
    /\ pc' = "branch"
    /\ UNCHANGED <<messages, calls, user_input, forced_table, sql_query,
                   history, response, exc, connOpen, fetched, after_error>>
    /\ UNCHANGED fnVars

\* line 161, llm.predict raises
ClassifyRaises(e) ==
    /\ pc = "classify"
    /\ prompt' = intent_prompt
    /\ exc' = e
    /\ trace' = Append(trace, "classify-raised")
    /\ pc' = "outer_except"
    /\ UNCHANGED <<messages, calls, user_input, forced_table, intent,
                   sql_query, history, response, connOpen, fetched,
                   after_error>>
    /\ UNCHANGED fnVars

\* lines 163-165, llm.predict returns
GenerateSqlReturns(raw) ==
    /\ pc = "branch"
    /\ intent \in DataIntents
    /\ prompt' = build_sql_prompt(forced_table)
    /\ sql_query' = strip(raw)
    /\ trace' = Append(trace, "generated-sql")
    /\ pc' = "gate"
    /\ UNCHANGED <<messages, calls, user_input, forced_table, intent, history,
                   response, exc, connOpen, fetched, after_error>>
    /\ UNCHANGED fnVars

\* lines 163-165, llm.predict raises
GenerateSqlRaises(e) ==
    /\ pc = "branch"
    /\ intent \in DataIntents
    /\ prompt' = build_sql_prompt(forced_table)
    /\ exc' = e
    /\ trace' = Append(trace, "generate-raised")
    /\ pc' = "outer_except"
    /\ UNCHANGED <<messages, calls, user_input, forced_table, intent,
                   sql_query, history, response, connOpen, fetched,
                   after_error>>
    /\ UNCHANGED fnVars

\* lines 167-169: the statement is refused
GateRejects ==
    /\ pc = "gate"
    /\ ~passes_gate(sql_query)
    /\ messages' = add_message(messages, TextBody(InvalidSqlText), "bot")
    /\ trace' = Append(trace, "error:invalid-sql")
    /\ pc' = "idle"
    /\ UNCHANGED <<calls, user_input, forced_table, intent, sql_query, history,
                   response, exc, connOpen, fetched, prompt, after_error>>
    /\ UNCHANGED fnVars

\* line 167: the statement is let through
GateAccepts ==
    /\ pc = "gate"
    /\ passes_gate(sql_query)
    /\ trace' = Append(trace, "validated")
    /\ pc' = "connect"
    /\ UNCHANGED <<messages, calls, user_input, forced_table, intent,
                   sql_query, history, response, exc, connOpen, fetched,
                   prompt, after_error>>
    /\ UNCHANGED fnVars

\* line 173: db._engine.connect() returns and the with block is entered
ConnectReturns ==
    /\ pc = "connect"
    /\ connOpen' = connOpen + 1
    /\ trace' = Append(trace, "connected")
    /\ pc' = "execute"
    /\ UNCHANGED <<messages, calls, user_input, forced_table, intent,
                   sql_query, history, response, exc, fetched, prompt,
                   after_error>>
    /\ UNCHANGED fnVars

\* line 173: db._engine.connect() raises
ConnectRaises(e) ==
    /\ pc = "connect"
    /\ exc' = e
    /\ trace' = Append(trace, "connect-raised")
    /\ pc' = "inner_except"
    /\ UNCHANGED <<messages, calls, user_input, forced_table, intent,
                   sql_query, history, response, connOpen, fetched, prompt,
                   after_error>>
    /\ UNCHANGED fnVars

\* line 174: connection.execute returns
ExecuteReturns ==
    /\ pc = "execute"
    /\ trace' = Append(trace, "executed")
    /\ pc' = "fetch"
    /\ UNCHANGED <<messages, calls, user_input, forced_table, intent,
                   sql_query, history, response, exc, connOpen, fetched,
                   prompt, after_error>>
    /\ UNCHANGED fnVars

\* faulty variant: leaves the with block without closing the connection
ExecuteRaisesLeaking(e) ==
    /\ pc = "execute"
    /\ exc' = e
    /\ trace' = Append(trace, "execute-raised")
    /\ pc' = "inner_except"
    /\ UNCHANGED <<messages, calls, user_input, forced_table, intent,
                   sql_query, history, response, connOpen, fetched, prompt,
                   after_error>>
    /\ UNCHANGED fnVars

\* line 174: connection.execute raises; the with block closes the connection
\* as the exception leaves it
ExecuteRaises(e) ==
    /\ pc = "execute"
    /\ exc' = e
    /\ connOpen' = connOpen - 1
    /\ trace' = Append(trace, "execute-raised")
    /\ pc' = "inner_except"
    /\ UNCHANGED <<messages, calls, user_input, forced_table, intent,
                   sql_query, history, response, fetched, prompt, after_error>>
    /\ UNCHANGED fnVars

\* lines 175-177: the rows are materialized into a DataFrame
FetchReturns(df) ==
    /\ pc = "fetch"
    /\ history' = df
    /\ fetched' = df
    /\ trace' = Append(trace, "materialized")
    /\ pc' = "release"
    /\ UNCHANGED <<messages, calls, user_input, forced_table, intent,
                   sql_query, response, exc, connOpen, prompt, after_error>>
    /\ UNCHANGED fnVars

\* lines 175-177: keys, fetchall or the DataFrame constructor raises; the with
\* block closes the connection as the exception leaves it
FetchRaises(e) ==
    /\ pc = "fetch"
    /\ exc' = e
    /\ connOpen' = connOpen - 1
    /\ trace' = Append(trace, "materialize-raised")
    /\ pc' = "inner_except"
    /\ UNCHANGED <<messages, calls, user_input, forced_table, intent,
                   sql_query, history, response, fetched, prompt, after_error>>
    /\ UNCHANGED fnVars

\* the end of the with block of line 173
Release ==
    /\ pc = "release"
    /\ connOpen' = connOpen - 1
    /\ trace' = Append(trace, "released")
    /\ pc' = "format"
    /\ UNCHANGED <<messages, calls, user_input, forced_table, intent,
                   sql_query, history, response, exc, fetched, prompt,
                   after_error>>
    /\ UNCHANGED fnVars

\* faulty variant: skips the formatting of line 179
FormatSkipped ==
    /\ pc = "format"
    /\ trace' = Append(trace, "formatted")
    /\ pc' = "present"
    /\ UNCHANGED <<messages, calls, user_input, forced_table, intent,
                   sql_query, history, response, exc, connOpen, fetched,
                   prompt, after_error>>
    /\ UNCHANGED fnVars

\* line 179
Format ==
    /\ pc = "format"
    /\ history' = format_money_columns(history)
    /\ trace' = Append(trace, "formatted")
    /\ pc' = "present"
    /\ UNCHANGED <<messages, calls, user_input, forced_table, intent,
                   sql_query, response, exc, connOpen, fetched, prompt,
                   after_error>>
    /\ UNCHANGED fnVars

\* faulty variant: lets the exception of the query step go on to the outer handler
\* after reporting it
InnerExceptRethrows ==
    /\ pc = "inner_except"
    /\ messages' = add_message(messages, TextBody(ExecutionErrorText(exc)), "bot")
    /\ trace' = Append(trace, "error:execution")
    /\ pc' = "outer_except"
    /\ UNCHANGED <<calls, user_input, forced_table, intent, sql_query, history,
                   response, exc, connOpen, fetched, prompt, after_error>>
    /\ UNCHANGED fnVars

\* lines 181-183
InnerExcept ==
    /\ pc = "inner_except"
    /\ messages' = add_message(messages, TextBody(ExecutionErrorText(exc)), "bot")
    /\ trace' = Append(trace, "error:execution")
    /\ pc' = "idle"
    /\ UNCHANGED <<calls, user_input, forced_table, intent, sql_query, history,
                   response, exc, connOpen, fetched, prompt, after_error>>
    /\ UNCHANGED fnVars

\* lines 185-198, llm.predict returns
NarrateReturns(r) ==
    /\ pc = "present"
    /\ intent = <<"p","r","e","d","i","c","t","i","o","n">>
    /\ prompt' = prediction_prompt(history)
    /\ response' = r
    /\ messages' = add_message(messages, TextBody(r), "bot")
    /\ trace' = trace \o <<"narrated", "displayed">>
    /\ pc' = "idle"
    /\ UNCHANGED <<calls, user_input, forced_table, intent, sql_query, history,
                   exc, connOpen, fetched, after_error>>
    /\ UNCHANGED fnVars

\* lines 185-197, llm.predict raises
NarrateRaises(e) ==
    /\ pc = "present"
    /\ intent = <<"p","r","e","d","i","c","t","i","o","n">>
    /\ prompt' = prediction_prompt(history)
    /\ exc' = e
    /\ trace' = Append(trace, "narrate-raised")
    /\ pc' = "outer_except"
    /\ UNCHANGED <<messages, calls, user_input, forced_table, intent,
                   sql_query, history, response, connOpen, fetched,
                   after_error>>
    /\ UNCHANGED fnVars

\* lines 199-200
ShowTable ==
    /\ pc = "present"
    /\ intent # <<"p","r","e","d","i","c","t","i","o","n">>
    /\ messages' = add_message(messages, TableBody(history), "bot")
    /\ trace' = Append(trace, "displayed")
    /\ pc' = "idle"
    /\ UNCHANGED <<calls, user_input, forced_table, intent, sql_query, history,
                   response, exc, connOpen, fetched, prompt, after_error>>
    /\ UNCHANGED fnVars

\* faulty variant: runs the statement path for an unknown label as well
ConverseReturnsToQuery(r) ==
    /\ pc = "branch"
    /\ intent \notin DataIntents
    /\ IF intent = <<"s","m","a","l","l","t","a","l","k">>
       THEN /\ prompt' = smalltalk_prompt
            /\ response' = r
            /\ messages' = add_message(messages, TextBody(r), "bot")
            /\ trace' = trace \o <<"conversed", "displayed">>
            /\ pc' = "idle"
            /\ UNCHANGED sql_query
       ELSE /\ prompt' = build_sql_prompt(forced_table)
            /\ sql_query' = strip(r)
            /\ trace' = Append(trace, "generated-sql")
            /\ pc' = "gate"
            /\ UNCHANGED <<messages, response>>
    /\ UNCHANGED <<calls, user_input, forced_table, intent, history, exc,
                   connOpen, fetched, after_error>>
    /\ UNCHANGED fnVars

\* lines 201-205, llm.predict returns
ConverseReturns(r) ==
    /\ pc = "branch"
    /\ intent \notin DataIntents
    /\ prompt' = smalltalk_prompt
    /\ response' = r
    /\ messages' = add_message(messages, TextBody(r), "bot")
    /\ trace' = trace \o <<"conversed", "displayed">>
    /\ pc' = "idle"
    /\ UNCHANGED <<calls, user_input, forced_table, intent, sql_query, history,
                   exc, connOpen, fetched, after_error>>
    /\ UNCHANGED fnVars

\* lines 201-204, llm.predict raises
ConverseRaises(e) ==
    /\ pc = "branch"
    /\ intent \notin DataIntents
    /\ prompt' = smalltalk_prompt
    /\ exc' = e
    /\ trace' = Append(trace, "converse-raised")
    /\ pc' = "outer_except"
    /\ UNCHANGED <<messages, calls, user_input, forced_table, intent,
                   sql_query, history, response, connOpen, fetched,
                   after_error>>
    /\ UNCHANGED fnVars

\* faulty variant: swallows the exception without a message
OuterExceptSilent ==
    /\ pc = "outer_except"
    /\ trace' = Append(trace, "error:unexpected")
    /\ pc' = "idle"
    /\ UNCHANGED <<messages, calls, user_input, forced_table, intent,
                   sql_query, history, response, exc, connOpen, fetched,
                   prompt, after_error>>
    /\ UNCHANGED fnVars

\* lines 207-208
OuterExcept ==
    /\ pc = "outer_except"
    /\ messages' = add_message(messages, TextBody(UnexpectedErrorText(exc)), "bot")
    /\ trace' = Append(trace, "error:unexpected")
    /\ pc' = "idle"
    /\ UNCHANGED <<calls, user_input, forced_table, intent, sql_query, history,
                   response, exc, connOpen, fetched, prompt, after_error>>
    /\ UNCHANGED fnVars

Next ==
    \/ \E u \in UserInputs : HandleBlank(u)
    \/ \E u \in UserInputs : Receive(u)
    \/ Route
    \/ \E raw \in LabelTexts : ClassifyReturns(raw)
    \/ \E e \in LLMErrors : ClassifyRaises(e)
    \/ \E raw \in SqlTexts : GenerateSqlReturns(raw)
    \/ \E e \in LLMErrors : GenerateSqlRaises(e)
    \/ GateRejects
    \/ GateAccepts
    \/ ConnectReturns
    \/ \E e \in DBErrors : ConnectRaises(e)
    \/ ExecuteReturns
    \/ \E e \in DBErrors : ExecuteRaises(e)
    \/ \E df \in ResultSets : FetchReturns(df)
    \/ \E e \in DBErrors : FetchRaises(e)
    \/ Release
    \/ Format
    \/ InnerExcept
    \/ \E r \in ReplyTexts : NarrateReturns(r)
    \/ \E e \in LLMErrors : NarrateRaises(e)
    \/ ShowTable
    \/ \E r \in ReplyTexts : ConverseReturns(r)
    \/ \E e \in LLMErrors : ConverseRaises(e)
    \/ OuterExcept

Spec == Init /\ [][Next]_vars

---------------------------------------------------------------------------
(* The formatting functions on their own: format_inr on the cell values of *)
(* FmtCells and format_money_columns on the DataFrames of FmtTables, each  *)
(* applied up to MaxApply times in a row.                                  *)

CellAlphabet == {"0", "1", "9", ".", "-", ",", "₹", " ", "a"}

CellStrings == UNION {[1..n -> CellAlphabet] : n \in 0..MaxLen}

FmtCells ==
    {StrVal(s) : s \in CellStrings}
    \cup { StrVal(<<"1","2","3","4",".","5">>), StrVal(<<"₹","1",",","2","3","4",".","5","0">>), StrVal(<<"+","1","2","3","4","5","6","7">>),
           NumVal(FALSE, 12345, 1), NumVal(TRUE, 7, 0), NoneVal }

ColumnNames == { <<"C","o","s","t">>, <<"M","o","n","t","h">>, <<"T","o","t","a","l"," ","E","x","p","e","n","s","e">>, <<"S","A","L","A","R","Y">>, <<"L","o","c","a","t","i","o","n">> }

SampleCells ==
    { StrVal(<<"1","2","0","0">>), StrVal(<<"n","/","a">>), StrVal(<<"₹","5",".","0","0">>),
      NumVal(FALSE, 12345, 1), NoneVal }

\* the one-row DataFrames with two columns of distinct names
FmtTables ==
    { [columns |-> <<q[1], q[2]>>, rows |-> << <<q[3], q[4]>> >>] :
        q \in { p \in ColumnNames \X ColumnNames \X SampleCells \X SampleCells :
                  p[1] # p[2] } }

\* the value the next application is given
FnArg == IF fn_out = <<>> THEN fn_in ELSE fn_out[Len(fn_out)]

InitFmt ==
    /\ TurnInit
    /\ fn_out = <<>>
    /\ \/ fn_name = "format_inr" /\ fn_in \in FmtCells
       \/ fn_name = "format_money_columns" /\ fn_in \in FmtTables

ApplyFormatInr ==
    /\ fn_name = "format_inr"
    /\ Len(fn_out) < MaxApply
    /\ fn_out' = Append(fn_out, format_inr(FnArg))
    /\ UNCHANGED <<fn_name, fn_in>>
    /\ UNCHANGED turnVars

ApplyFormatMoneyColumns ==
    /\ fn_name = "format_money_columns"
    /\ Len(fn_out) < MaxApply
    /\ fn_out' = Append(fn_out, format_money_columns(FnArg))
    /\ UNCHANGED <<fn_name, fn_in>>
    /\ UNCHANGED turnVars

NextFmt == ApplyFormatInr \/ ApplyFormatMoneyColumns

SpecFmt == InitFmt /\ [][NextFmt]_vars

---------------------------------------------------------------------------
(* The table router on its own, on texts made of up to MaxWords words of   *)
(* Vocabulary separated by spaces.  cat is the keyword family a word       *)
(* belongs to, read off the keyword lists of lines 154-158 by hand.        *)

Vocabulary ==
    << [w |-> <<"c","o","s","t">>, cat |-> "cost"],
       [w |-> <<"o","v","e","r","h","e","a","d">>, cat |-> "cost"],
       [w |-> <<"f","e","e">>, cat |-> "cost"],
       [w |-> <<"c","o","m","p","l","i","a","n","c","e">>, cat |-> "cost"],
       [w |-> <<"m","a","i","n","t","e","n","a","n","c","e">>, cat |-> "cost"],
       [w |-> <<"e","x","p","e","n","s","e">>, cat |-> "expense"],
       [w |-> <<"f","r","e","e","l","a","n","c","e","r">>, cat |-> "expense"],
       [w |-> <<"a","g","e","n","c","y">>, cat |-> "expense"],
       [w |-> <<"m","a","r","k","e","t","i","n","g">>, cat |-> "expense"],
       [w |-> <<"s","a","l","a","r","y">>, cat |-> "salary"],
       [w |-> <<"p","a","y","r","o","l","l">>, cat |-> "salary"],
       [w |-> <<"e","m","p","l","o","y","e","e">>, cat |-> "salary"],
       [w |-> <<"C","O","S","T","S">>, cat |-> "cost"],
       [w |-> <<"C","o","f","f","e","e">>, cat |-> "cost"],
       [w |-> <<"E","x","p","e","n","s","e","s">>, cat |-> "expense"],
       [w |-> <<"S","a","l","a","r","i","e","s">>, cat |-> "none"],
       [w |-> <<"E","m","p","l","o","y","e","e","s">>, cat |-> "salary"],
       [w |-> <<"H","i">>, cat |-> "none"],
       [w |-> <<"b","y">>, cat |-> "none"] >>

RECURSIVE JoinWords(_)
JoinWords(ws) ==
    IF ws = <<>> THEN <<>>
    ELSE IF Len(ws) = 1 THEN Vocabulary[ws[1]].w
    ELSE Vocabulary[ws[1]].w \o <<" ">> \o JoinWords(Tail(ws))

RouterInputs ==
    { [words |-> ws, text |-> JoinWords(ws)] :
        ws \in UNION {[1..n -> DOMAIN Vocabulary] : n \in 0..MaxWords} }

InitRouter ==
    /\ TurnInit
    /\ fn_name = "forced_table"
    /\ fn_in \in RouterInputs
    /\ fn_out = <<>>

ApplyRouter ==
    /\ fn_name = "forced_table"
    /\ fn_out = <<>>
    /\ fn_out' = <<ForcedTable(fn_in.text)>>
    /\ UNCHANGED <<fn_name, fn_in>>
    /\ UNCHANGED turnVars

NextRouter == ApplyRouter

SpecRouter == InitRouter /\ [][NextRouter]_vars

---------------------------------------------------------------------------
(* Properties.                                                             *)

Has(step) == \E i \in DOMAIN trace : trace[i] = step

Times(step) == Cardinality({i \in DOMAIN trace : trace[i] = step})

StoreSteps ==
    {"connected", "connect-raised", "executed", "execute-raised",
     "materialized", "materialize-raised", "released"}

UserEntry(u) == [message |-> TextBody(u), sender |-> "user"]

BotText(text) == [message |-> TextBody(text), sender |-> "bot"]

BotTable(df) == [message |-> TableBody(df), sender |-> "bot"]

\* the log ends with the current input followed by the one entry e
TurnEndsWith(e) ==
    /\ Len(messages) >= 2
    /\ messages[Len(messages) - 1] = UserEntry(user_input)
    /\ messages[Len(messages)] = e

\* C1: once the SQL completion has returned a text whose trimmed, lower-cased
\* form does not begin with select, the turn opens no connection and runs no
\* statement, and it ends with exactly one bot message, the invalid-SQL error.
C1_NoExecutionWithoutSelect ==
    (Has("generated-sql") /\ ~startswith(lower(strip(sql_query)), <<"s","e","l","e","c","t">>))
        => /\ \A s \in StoreSteps : ~Has(s)
           /\ connOpen = 0
           /\ pc \in {"gate", "idle"}
           /\ pc = "idle" => /\ Last(trace) = "error:invalid-sql"
                             /\ TurnEndsWith(BotText(InvalidSqlText))

C1_Witness ==
    /\ pc = "idle"
    /\ Has("error:invalid-sql")
    /\ sql_query = <<"d","r","o","p"," ","t",";"," ","s","e","l","e","c","t"," ","1">>

\* C2: when connecting, executing the statement or materializing its rows
\* raises, the turn ends with the user entry followed by exactly one bot
\* entry, the execution error message; the statement is executed at most once
\* and the exception never reaches the outer handler.
C2_ExecutionFailureOneMessage ==
    (Has("connect-raised") \/ Has("execute-raised") \/ Has("materialize-raised"))
        => /\ pc \in {"inner_except", "idle"}
           /\ Times("connected") + Times("connect-raised") = 1
           /\ Times("executed") + Times("execute-raised") <= 1
           /\ ~Has("error:unexpected")
           /\ pc = "inner_except" => messages[Len(messages)] = UserEntry(user_input)
           /\ pc = "idle" => /\ Last(trace) = "error:execution"
                             /\ Len(messages) % 2 = 0
                             /\ TurnEndsWith(BotText(ExecutionErrorText(exc)))

C2_Witness ==
    /\ pc = "idle"
    /\ Has("materialize-raised")
    /\ Last(trace) = "error:execution"
    /\ Len(messages) = 4

\* C3: in a turn whose label is neither db_query nor prediction, no SQL is
\* generated and the store is not touched; the one further completion call is
\* the conversational one, and the bot message is its text (the unexpected-
\* error message when that call raises).
C3_OtherLabelsConverse ==
    (Has("classified") /\ intent \notin DataIntents)
        => /\ ~Has("generated-sql") /\ ~Has("generate-raised")
           /\ \A s \in StoreSteps : ~Has(s)
           /\ connOpen = 0
           /\ sql_query = <<>>
           /\ prompt.kind \in {"intent", "smalltalk"}
           /\ pc \in {"branch", "outer_except", "idle"}
           /\ pc = "idle" =>
                /\ prompt = smalltalk_prompt
                /\ Times("conversed") + Times("converse-raised") = 1
                /\ Has("conversed") => TurnEndsWith(BotText(response))
                /\ Has("converse-raised") =>
                       TurnEndsWith(BotText(UnexpectedErrorText(exc)))

C3_Witness ==
    /\ pc = "idle"
    /\ intent = <<"q","u","e","r","y">>
    /\ Has("conversed")
    /\ messages[Len(messages)] = BotText(response)

\* the keyword families of the words of a router input
Families(in) == {Vocabulary[in.words[i]].cat : i \in DOMAIN in.words}

\* C4: the forced table is ohs_oes when the text holds a cost keyword, else
\* variable_expense when it holds an expense keyword, else salary_expense when
\* it holds a salary keyword, else none; it is none or one of the three tables.
C4_RouterFirstMatchWins ==
    (fn_name = "forced_table" /\ fn_out # <<>>)
        => /\ fn_out[1] \in KnownTables \cup {"None"}
           /\ fn_out[1] =
                IF "cost" \in Families(fn_in) THEN "ohs_oes"
                ELSE IF "expense" \in Families(fn_in) THEN "variable_expense"
                ELSE IF "salary" \in Families(fn_in) THEN "salary_expense"
                ELSE "None"

C4_Witness ==
    /\ fn_name = "forced_table"
    /\ fn_out = <<"ohs_oes">>
    /\ {"cost", "expense"} \subseteq Families(fn_in)

RaisedSteps ==
    {"classify-raised", "generate-raised", "narrate-raised", "converse-raised",
     "connect-raised", "execute-raised", "materialize-raised"}

\* the turn hit an error
HitError == Has("error:invalid-sql") \/ \E s \in RaisedSteps : Has(s)

\* the error message the turn's error calls for
ExpectedErrorText ==
    IF Has("error:invalid-sql") THEN InvalidSqlText
    ELSE IF Has("connect-raised") \/ Has("execute-raised")
            \/ Has("materialize-raised")
         THEN ExecutionErrorText(exc)
         ELSE UnexpectedErrorText(exc)

C5_State ==
    /\ (pc = "idle" /\ HitError)
          => /\ Last(trace) \in ErrorSteps
             /\ Len(messages) % 2 = 0
             /\ TurnEndsWith(BotText(ExpectedErrorText))
    /\ (pc = "idle" /\ LastTurnError /\ calls < MaxCalls)
          => \A u \in NonBlankInputs : ENABLED Receive(u)
    /\ (after_error /\ pc = "idle")
          => /\ Has("classified") \/ Has("classify-raised")
             /\ Len(messages) >= 4
             /\ messages[Len(messages)].sender = "bot"

C5_Step ==
    /\ Len(messages') >= Len(messages)
    /\ \A i \in DOMAIN messages : messages'[i] = messages[i]
    /\ (pc = "idle" /\ LastTurnError /\ pc' # "idle")
          => /\ after_error'
             /\ trace' = <<"received">>
             /\ pc' = "route"

\* C5: a turn that hits an error (invalid SQL, a failing store call, a failing
\* completion call) ends with exactly one bot message, the error message of
\* its kind; no step changes an entry already in the log; after an error turn
\* every non-blank input is accepted, starts a fresh turn and is classified
\* and answered.
C5_ErrorsEndTheTurnOnly == []C5_State /\ [][C5_Step]_vars

C5_Witness ==
    /\ after_error
    /\ pc = "idle"
    /\ Last(trace) = "displayed"
    /\ Len(messages) = 4

\* C6: after a statement has executed and its rows are materialized, a
\* db_query turn ends with one bot entry holding the currency-formatted table,
\* and a prediction turn puts the currency-formatted table into the narrative
\* prompt and ends with one bot entry holding the narrative text (the
\* unexpected-error text when that call raises), never a table.
C6_TableOrNarrative ==
    (pc = "idle" /\ Has("materialized"))
        => /\ history = format_money_columns(fetched)
           /\ intent # <<"p","r","e","d","i","c","t","i","o","n">>
                => /\ Last(trace) = "displayed"
                   /\ ~Has("narrated") /\ ~Has("narrate-raised")
                   /\ TurnEndsWith(BotTable(format_money_columns(fetched)))
           /\ intent = <<"p","r","e","d","i","c","t","i","o","n">>
                => /\ prompt = prediction_prompt(format_money_columns(fetched))
                   /\ messages[Len(messages)].message.shape = "text"
                   /\ Times("narrated") + Times("narrate-raised") = 1
                   /\ Has("narrated") => TurnEndsWith(BotText(response))
                   /\ Has("narrate-raised") =>
                          TurnEndsWith(BotText(UnexpectedErrorText(exc)))

C6_Witness ==
    /\ pc = "idle"
    /\ intent = <<"p","r","e","d","i","c","t","i","o","n">>
    /\ Has("narrated")
    /\ fetched # format_money_columns(fetched)
    /\ prompt.history = format_money_columns(fetched)

\* the columns of df whose name holds none of cost, expense, salary
PlainColumns(df) ==
    {c \in DOMAIN df.columns :
        \A k \in DOMAIN MoneyWords : ~contains(lower(df.columns[c]), MoneyWords[k])}

\* C7: format_inr returns a value float() cannot parse unchanged, what it
\* returns for a value float() can parse is a string float() cannot parse, and
\* applying it again to its result changes nothing; applying format_money_columns
\* again changes nothing, and it never changes a column whose name holds none
\* of cost, expense, salary.
C7_FormattingIdempotent ==
    /\ (fn_name = "format_inr" /\ fn_out # <<>>)
          => /\ ~float(fn_in).ok => fn_out[1] = fn_in
             /\ float(fn_in).ok => ~float(fn_out[1]).ok
             /\ \A i \in 2..Len(fn_out) : fn_out[i] = fn_out[1]
    /\ (fn_name = "format_money_columns" /\ fn_out # <<>>)
          => /\ \A i \in 2..Len(fn_out) : fn_out[i] = fn_out[1]
             /\ fn_out[1].columns = fn_in.columns
             /\ \A r \in DOMAIN fn_in.rows : \A c \in PlainColumns(fn_in) :
                    fn_out[1].rows[r][c] = fn_in.rows[r][c]

C7_Witness ==
    /\ fn_name = "format_inr"
    /\ Len(fn_out) = 2
    /\ float(fn_in).ok
    /\ fn_out[1] # fn_in
    /\ fn_out[2] = fn_out[1]

\* the place of a step in the order of a turn, 0 for a step that is not one
\* of the turn's ordered steps
Rank(step) ==
    CASE step = "received" -> 1
      [] step = "routed" -> 2
      [] step = "classified" -> 3
      [] step = "generated-sql" -> 4
      [] step = "validated" -> 5
      [] step = "connected" -> 6
      [] step = "executed" -> 7
      [] step = "materialized" -> 8
      [] step = "released" -> 9
      [] step = "formatted" -> 10
      [] step = "narrated" -> 11
      [] step = "conversed" -> 11
      [] step = "displayed" -> 12
      [] OTHER -> 0

\* C8 as claimed: the table router is evaluated only after the intent
\* classifier has returned, and only on db_query and prediction turns.
C8_RouterAfterClassifier ==
    Has("routed")
        => /\ \E i, j \in DOMAIN trace :
                i < j /\ trace[i] = "classified" /\ trace[j] = "routed"
           /\ intent \in DataIntents

\* C8, amended: the steps of a turn occur in the order received, routed,
\* classified, SQL generated, validated, executed, formatted, narrated,
\* displayed; the table router is evaluated on every non-blank turn, before
\* the intent classifier is called; SQL is generated, and the forced table
\* used, only on db_query and prediction turns.
C8_RouterBeforeClassifier ==
    /\ \A i, j \in DOMAIN trace :
          (i < j /\ Rank(trace[i]) > 0 /\ Rank(trace[j]) > 0)
              => Rank(trace[i]) < Rank(trace[j])
    /\ pc # "idle" => trace[1] = "received"
    /\ (pc \notin {"idle", "route"} \/ Len(trace) >= 2)
          => Len(trace) >= 2 /\ trace[2] = "routed"
    /\ (Has("classified") \/ Has("classify-raised"))
          => /\ Has("routed")
             /\ forced_table = ForcedTable(user_input)
    /\ (Has("generated-sql") \/ Has("generate-raised"))
          => /\ Has("classified")
             /\ intent \in DataIntents
    /\ prompt.force # <<>> => prompt.kind = "sql"
    /\ Has("displayed")
          => \/ Has("conversed")
             \/ Has("formatted") /\ Has("executed") /\ Has("validated")

C8_Witness ==
    /\ pc = "idle"
    /\ intent = <<"s","m","a","l","l","t","a","l","k">>
    /\ trace = <<"received", "routed", "classified", "conversed", "displayed">>
    /\ forced_table = "ohs_oes"

\* C9: at most one connection is open, it is open exactly between the entry of
\* the with block and its exit (while the statement executes and its rows are
\* materialized), and none is open when the query step has been left: in the
\* exception handlers, while the result is formatted and presented, during
\* the narrative call, and when the turn has ended.
C9_ConnectionScoped ==
    /\ connOpen \in {0, 1}
    /\ connOpen = 1 <=> pc \in {"execute", "fetch", "release"}
    /\ connOpen = 1 => /\ Has("connected")
                       /\ ~Has("released")
                       /\ ~Has("execute-raised")
                       /\ ~Has("materialize-raised")
    /\ prompt.kind = "prediction" => connOpen = 0

C9_Witness ==
    /\ pc = "inner_except"
    /\ Has("execute-raised")
    /\ connOpen = 0

C10_State ==
    /\ \A i \in DOMAIN messages :
          messages[i].sender = IF i % 2 = 1 THEN "user" ELSE "bot"
    /\ Len(messages) % 2 = IF pc = "idle" THEN 0 ELSE 1
    /\ Len(messages) <= 2 * calls
    /\ pc # "idle" => messages[Len(messages)] = UserEntry(user_input)
    /\ pc = "idle" => \A u \in BlankInputs : ~ENABLED Receive(u)

C10_Step ==
    /\ (pc = "idle" /\ pc' # "idle")
          => /\ strip(user_input') # <<>>
             /\ messages' = Append(messages, UserEntry(user_input'))
    /\ (pc = "idle" /\ pc' = "idle")
          => /\ messages' = messages
             /\ prompt' = prompt
             /\ trace' = trace
             /\ connOpen' = connOpen
    /\ (pc # "idle" /\ pc' # "idle") => messages' = messages
    /\ (pc # "idle" /\ pc' = "idle")
          => /\ Len(messages') = Len(messages) + 1
             /\ SubSeq(messages', 1, Len(messages)) = messages
             /\ messages'[Len(messages')].sender = "bot"

\* C10: the log holds, for each non-blank input, a user entry with that input
\* immediately followed by exactly one bot entry, so senders alternate user,
\* bot from the first entry on whichever path a turn took; a blank input
\* starts no turn, appends nothing and makes no completion or store call.
C10_LogAlternates == []C10_State /\ [][C10_Step]_vars

C10_Witness ==
    /\ pc = "idle"
    /\ calls = 2
    /\ Len(messages) = 2
    /\ messages[2].message.shape = "table"

=============================================================================
